---- MODULE Spec2Model ----
(***************************************************************************)
(* Model of AsyncApiQueue (src/lib/async-api-queue.js): admission control  *)
(* and result hand-off for asynchronous API calls, coordinated through a   *)
(* Redis store shared by several worker instances.                         *)
(*                                                                         *)
(* Every static method of the class is an async function whose only        *)
(* suspension points are Redis round trips.  One step of the model is one  *)
(* Redis command as the server executes it, followed by the local          *)
(* JavaScript that runs until the next command is issued.  Commands of one *)
(* instance reach the server in the order the instance issued them;        *)
(* commands of different instances interleave freely.                      *)
(*                                                                         *)
(* Redis stores strings: a GET returns a string or null, and a number      *)
(* passed to SET is stored as its decimal text.  Strings are modelled as   *)
(* sequences of UTF-16 code units so that the JavaScript operators applied *)
(* to what GET returned (++, --, >, >=, !=, !, ===) are computed as        *)
(* JavaScript computes them.                                               *)
(***************************************************************************)
EXTENDS Integers, Sequences, FiniteSets, TLC

\* ------------------------------------------------------------------ bounds
\* largest in-flight count explored: a write of a larger count is not taken
\* (stale writes after a reinitialization let the count grow without limit)
MaxCount == 3
\* calls made in a scenario of concurrent callers
MaxCalls == 3
\* largest in-flight count a scenario of concurrent callers starts from
MaxStart == 2
\* the Redis commands of one call among which one may fail (addRequest on an
\* empty keyspace issues 8)
MaxCommands == 8
\* largest count and largest size isFullQueue is applied to
MaxStored == 12

\* ------------------------------------------------------- JavaScript values
JNull == [t |-> "null", n |-> 0, s |-> <<>>]
JUndef == [t |-> "undefined", n |-> 0, s |-> <<>>]
JFalse == [t |-> "false", n |-> 0, s |-> <<>>]
JTrue == [t |-> "true", n |-> 0, s |-> <<>>]
JNaN == [t |-> "nan", n |-> 0, s |-> <<>>]
JNum(x) == [t |-> "num", n |-> x, s |-> <<>>]
JStr(x) == [t |-> "str", n |-> 0, s |-> x]
\* the error the Redis client hands to the callback of a command that failed
JErr == [t |-> "error", n |-> 0, s |-> <<>>]

\* "pending", the status setRequest stores
PENDING == <<112, 101, 110, 100, 105, 110, 103>>
\* "OK", the reply of the Redis SET command
OK == <<79, 75>>
\* "no-of-request-is-at-limit", the rejection of addRequest
LIMIT == <<110, 111, 45, 111, 102, 45, 114, 101, 113, 117, 101, 115, 116, 45,
           105, 115, 45, 97, 116, 45, 108, 105, 109, 105, 116>>
\* "done" and "", two payloads a worker may hand to setDone
DONE == <<100, 111, 110, 101>>
EMPTY == <<>>

IsDigit(c) == c >= 48 /\ c <= 57

RECURSIVE DigitsOf(_)
\* decimal text of a natural number
DigitsOf(x) == IF x < 10 THEN <<48 + x>> ELSE Append(DigitsOf(x \div 10), 48 + (x % 10))

\* String(x) for an integer x, the text the Redis client sends for a number
ToStr(x) == IF x < 0 THEN <<45>> \o DigitsOf(0 - x) ELSE DigitsOf(x)

RECURSIVE DigitsValue(_)
DigitsValue(s) == IF s = <<>> THEN 0
                  ELSE 10 * DigitsValue(SubSeq(s, 1, Len(s) - 1)) + (s[Len(s)] - 48)

AllDigits(s) == s # <<>> /\ \A i \in 1..Len(s) : IsDigit(s[i])

\* Number(s) for a string s: "" is 0, decimal text (with an optional sign) is
\* its value, anything else is NaN
StrToNumber(s) ==
  IF s = <<>> THEN JNum(0)
  ELSE IF AllDigits(s) THEN JNum(DigitsValue(s))
  ELSE IF s[1] = 45 /\ AllDigits(Tail(s)) THEN JNum(0 - DigitsValue(Tail(s)))
  ELSE JNaN

\* ToNumber(v) of JavaScript's abstract operations
ToNumber(v) ==
  CASE v.t = "num" -> v
    [] v.t = "str" -> StrToNumber(v.s)
    [] v.t = "null" -> JNum(0)
    [] v.t = "false" -> JNum(0)
    [] v.t = "true" -> JNum(1)
    [] OTHER -> JNaN

RECURSIVE StrLess(_, _)
\* a < b for two strings: code unit by code unit, a proper prefix is smaller
StrLess(a, b) ==
  IF b = <<>> THEN FALSE
  ELSE IF a = <<>> THEN TRUE
  ELSE IF a[1] # b[1] THEN a[1] < b[1]
  ELSE StrLess(Tail(a), Tail(b))

\* a >= b: two strings compare as strings, anything else as numbers, and a
\* comparison with NaN is false
JsGE(a, b) ==
  IF a.t = "str" /\ b.t = "str" THEN ~StrLess(a.s, b.s)
  ELSE LET x == ToNumber(a)
           y == ToNumber(b)
       IN x.t = "num" /\ y.t = "num" /\ x.n >= y.n

\* a > b
JsGT(a, b) ==
  IF a.t = "str" /\ b.t = "str" THEN StrLess(b.s, a.s)
  ELSE LET x == ToNumber(a)
           y == ToNumber(b)
       IN x.t = "num" /\ y.t = "num" /\ x.n > y.n

\* a != b for a string or number a and a number b
JsNE(a, b) ==
  LET x == ToNumber(a)
      y == ToNumber(b)
  IN ~(x.t = "num" /\ y.t = "num" /\ x.n = y.n)

\* !v
JsNot(v) ==
  \/ v.t \in {"null", "undefined", "false", "nan"}
  \/ v.t = "num" /\ v.n = 0
  \/ v.t = "str" /\ v.s = <<>>

\* ++v and --v: the operand is converted to a number first
JsInc(v) == LET x == ToNumber(v) IN IF x.t = "num" THEN JNum(x.n + 1) ELSE JNaN
JsDec(v) == LET x == ToNumber(v) IN IF x.t = "num" THEN JNum(x.n - 1) ELSE JNaN

\* the text the Redis client stores for a value handed to SET
\* ("NaN" for NaN)
ToRedis(v) ==
  CASE v.t = "str" -> v.s
    [] v.t = "num" -> ToStr(v.n)
    [] OTHER -> <<78, 97, 78>>
\* ---------------------------------------------------------------- the store
QUEUE_SIZE == "QUEUE_SIZE"
QUEUE_COUNT == "QUEUE_COUNT"
\* request ids (correlation ids of the outbound calls)
Ids == {"a", "b"}
Keys == {QUEUE_SIZE, QUEUE_COUNT} \cup Ids
\* what a worker may hand to setDone as the response
Payloads == {DONE, EMPTY, PENDING}
\* queue sizes an instance may be configured with
Sizes == {1, 2, 10}
\* the worker instances
Procs == {1, 2}

VARIABLES
  store,   \* the Redis keyspace: a function from the keys present to their text
  proc,    \* per instance: the static fields of AsyncApiQueue and the frame of
           \* the call in progress
  last,    \* history: the last call that ran alone, and the keyspace before it
  streak,  \* history: addRequest calls run back to back from a count of 0
  flow,    \* history: how far the calls run alone have followed addRequest,
           \* setRequest(id), setDone(id, R), and the count right after addRequest
  tally    \* history: the count a scenario started from, the calls made since,
           \* and the units the callers took and gave back

vars == <<store, proc, last, streak, flow, tally>>
hist == <<last, streak, flow, tally>>

\* client.set(key, value, "EX", expiration): the key holds the text of value
setRedis(st, key, value) ==
  [k \in DOMAIN st \cup {key} |-> IF k = key THEN ToRedis(value) ELSE st[k]]

\* client.get(key): the text, or null when the key is absent
getRedis(st, key) == IF key \in DOMAIN st THEN JStr(st[key]) ELSE JNull

\* client.del(key): the keyspace afterwards
delRedis(st, key) == [k \in DOMAIN st \ {key} |-> st[k]]

\* client.del(key): the reply, the number of keys removed
delReply(st, key) == IF key \in DOMAIN st THEN JNum(1) ELSE JNum(0)

\* ------------------------------------------------------------ call frames
\* op/pc: the public method running and the Redis command it issues next;
\* ret: where initializeRedis returns to; id, resp: the arguments; count, size,
\* isDone, result: the locals of the methods; status: how the promise of the
\* last call settled; cfg: AsyncApiQueue.size (0 before initialize).
\* A local is kept only while the code still reads it.
Fresh ==
  [op |-> "none", pc |-> "idle", ret |-> "none", id |-> "none", resp |-> <<>>,
   count |-> JUndef, size |-> JUndef, isDone |-> JUndef, result |-> JUndef,
   status |-> "none", cfg |-> 0]

R(st, pr) == [st |-> st, pr |-> pr]

\* the promise of the public method settles
Settle(pr, how, value) ==
  [Fresh EXCEPT !.op = pr.op, !.cfg = pr.cfg, !.status = how, !.result = value]

\* the method goes on to the Redis command at label
Goto(pr, label) ==
  [Fresh EXCEPT !.op = pr.op, !.cfg = pr.cfg, !.pc = label, !.result = pr.result]

\* checkDone: null if no record, false when the value is "pending", else the
\* value
checkDone(st, id) ==
  LET result == getRedis(st, id)
  IN IF result = JStr(PENDING) THEN JFalse ELSE result

\* isFullQueue, after both reads (and their initializations) returned:
\* count >= size; addRequest rejects when full and goes on to up1Count otherwise
fullTest(pr) ==
  LET full == JsGE(pr.count, pr.size)
  IN IF pr.op = "isFullQueue"
     THEN Settle(pr, "resolved", IF full THEN JTrue ELSE JFalse)
     ELSE IF full THEN Settle(pr, "rejected", JStr(LIMIT))
          ELSE Goto(pr, "up_get")

\* isFullQueue, after getCount returned: getSize initializes if it read null
fullSizeInit(pr) ==
  IF pr.size.t = "num" THEN [pr EXCEPT !.pc = "ir_count", !.ret = "full_test"]
  ELSE fullTest(pr)

\* initialize that reinitializes whatever size it read
initTestAlways(pr) == [Goto(pr, "ir_count") EXCEPT !.ret = "init_end"]

\* initialize: reinitialize when the persisted size differs from size
initTest(pr) ==
  IF JsNE(pr.size, JNum(pr.cfg))
  THEN [Goto(pr, "ir_count") EXCEPT !.ret = "init_end"]
  ELSE Settle(pr, "resolved", JUndef)

\* the local code that runs when an awaited call returns to label
resume(pr, label) ==
  CASE label = "full_size_init" -> fullSizeInit(pr)
    [] label = "full_test" -> fullTest(pr)
    [] label = "init_test" -> initTest(pr)
    [] label = "init_end" -> Settle(pr, "resolved", JUndef)
    [] label = "size_end" -> Settle(pr, "resolved", pr.size)
    [] label = "count_end" -> Settle(pr, "resolved", pr.count)
    [] OTHER -> [pr EXCEPT !.pc = label, !.ret = "none"]

\* initializeRedis: SET QUEUE_COUNT 0, then SET QUEUE_SIZE size
initializeRedis(st, pr) ==
  IF pr.pc = "ir_count"
  THEN R(setRedis(st, QUEUE_COUNT, JNum(0)), [pr EXCEPT !.pc = "ir_size"])
  ELSE R(setRedis(st, QUEUE_SIZE, JNum(pr.cfg)), resume(pr, pr.ret))

\* getCount: the count read, 0 when null; on null initializeRedis runs
\* before the caller continues at next
getCount(st, pr, next) ==
  LET size == getRedis(st, QUEUE_COUNT)
  IN IF size = JNull
     THEN R(st, [pr EXCEPT !.count = JNum(0), !.pc = "ir_count", !.ret = next])
     ELSE R(st, resume([pr EXCEPT !.count = size], next))

\* getSize: the size read, AsyncApiQueue.size when null; on null
\* initializeRedis runs before the caller continues at next
getSize(st, pr, next) ==
  LET size == getRedis(st, QUEUE_SIZE)
  IN IF size = JNull
     THEN R(st, [pr EXCEPT !.size = JNum(pr.cfg), !.pc = "ir_count", !.ret = next])
     ELSE R(st, resume([pr EXCEPT !.size = size], next))

\* up1Count: getCount, then setCount(++count)
up1Count(st, pr) ==
  IF pr.pc = "up_get" THEN getCount(st, pr, "up_set")
  ELSE R(setRedis(st, QUEUE_COUNT, JsInc(pr.count)), Settle(pr, "resolved", JStr(OK)))

\* down1Count with the floor at 0 left out: setCount(--count)
down1CountNoFloor(st, pr) ==
  IF pr.pc = "dn_get" THEN getCount(st, pr, "dn_set")
  ELSE R(setRedis(st, QUEUE_COUNT, JsDec(pr.count)),
         Settle(pr, "resolved", IF pr.op = "down1Count" THEN JStr(OK) ELSE pr.result))

\* down1Count: getCount, then setCount(count > 0 ? --count : 0); setDone and
\* removeRequest then resolve with the result they hold
down1Count(st, pr) ==
  IF pr.pc = "dn_get" THEN getCount(st, pr, "dn_set")
  ELSE R(setRedis(st, QUEUE_COUNT,
                  IF JsGT(pr.count, JNum(0)) THEN JsDec(pr.count) ELSE JNum(0)),
         Settle(pr, "resolved", IF pr.op = "down1Count" THEN JStr(OK) ELSE pr.result))

\* isFullQueue: Promise.all([getCount(), getSize()]) issues both GETs before
\* either reply is handled, so both reads precede every SET of initializeRedis
isFullQueue(st, pr) ==
  IF pr.pc = "full_count"
  THEN LET count == getRedis(st, QUEUE_COUNT)
       IN R(st, [pr EXCEPT !.count = IF count = JNull THEN JNum(0) ELSE count,
                           !.pc = "full_size"])
  ELSE LET size == getRedis(st, QUEUE_SIZE)
           pr2 == [pr EXCEPT !.size = IF size = JNull THEN JNum(pr.cfg) ELSE size]
       IN R(st, IF pr.count.t = "num"
                THEN [pr2 EXCEPT !.pc = "ir_count", !.ret = "full_size_init"]
                ELSE fullSizeInit(pr2))

\* setRequest that also takes a unit of the count
setRequestCounting(st, pr) ==
  R(setRedis(st, pr.id, JStr(PENDING)), Goto(pr, "up_get"))

\* setRequest(key): SET key "pending"
setRequest(st, pr) ==
  R(setRedis(st, pr.id, JStr(PENDING)), Settle(pr, "resolved", JStr(OK)))

\* setDone that stores the response and leaves the count alone
setDoneKeeping(st, pr) ==
  R(setRedis(st, pr.id, JStr(pr.resp)), Settle(pr, "resolved", JStr(OK)))

\* setDone(id, response): SET id response, emit "setDone", then down1Count
setDone(st, pr) ==
  R(setRedis(st, pr.id, JStr(pr.resp)), Goto([pr EXCEPT !.result = JStr(OK)], "dn_get"))

\* removeRequest with neither test: always DEL, always down1Count
removeRequestAlways(st, pr) ==
  IF pr.pc = "rm_check"
  THEN R(st, [pr EXCEPT !.isDone = checkDone(st, pr.id), !.result = JNum(0),
                        !.pc = "rm_del"])
  ELSE R(delRedis(st, pr.id), Goto([pr EXCEPT !.result = delReply(st, pr.id)], "dn_get"))

\* removeRequest that deletes the slot and never gives its unit back
removeRequestKeeping(st, pr) ==
  IF pr.pc = "rm_check"
  THEN LET isDone == checkDone(st, pr.id)
       IN IF isDone # JNull
          THEN R(st, [pr EXCEPT !.isDone = isDone, !.result = JNum(0), !.pc = "rm_del"])
          ELSE R(st, Settle(pr, "resolved", JNum(0)))
  ELSE R(delRedis(st, pr.id), Settle(pr, "resolved", delReply(st, pr.id)))

\* removeRequest that does not look at the reply of the DEL
removeRequestUnchecked(st, pr) ==
  IF pr.pc = "rm_check"
  THEN LET isDone == checkDone(st, pr.id)
       IN IF isDone # JNull
          THEN R(st, [pr EXCEPT !.isDone = isDone, !.result = JNum(0), !.pc = "rm_del"])
          ELSE R(st, Settle(pr, "resolved", JNum(0)))
  ELSE LET result == delReply(st, pr.id)
       IN IF JsNot(pr.isDone)
          THEN R(delRedis(st, pr.id), Goto([pr EXCEPT !.result = result], "dn_get"))
          ELSE R(delRedis(st, pr.id), Settle(pr, "resolved", result))

\* removeRequest(id): checkDone, then DEL, then down1Count if a record was
\* deleted and isDone is falsy
removeRequest(st, pr) ==
  IF pr.pc = "rm_check"
  THEN LET isDone == checkDone(st, pr.id)
       IN IF isDone # JNull
          THEN R(st, [pr EXCEPT !.isDone = isDone, !.result = JNum(0), !.pc = "rm_del"])
          ELSE R(st, Settle(pr, "resolved", JNum(0)))
  ELSE LET result == delReply(st, pr.id)
       IN IF result = JNum(1) /\ JsNot(pr.isDone)
          THEN R(delRedis(st, pr.id), Goto([pr EXCEPT !.result = result], "dn_get"))
          ELSE R(delRedis(st, pr.id), Settle(pr, "resolved", result))

\* the next Redis command of the call in progress, and the local code after it
Step(st, pr) ==
  CASE pr.pc \in {"ir_count", "ir_size"} -> initializeRedis(st, pr)
    [] pr.pc \in {"up_get", "up_set"} -> up1Count(st, pr)
    [] pr.pc \in {"dn_get", "dn_set"} -> down1Count(st, pr)
    [] pr.pc \in {"full_count", "full_size"} -> isFullQueue(st, pr)
    [] pr.pc = "init_size" -> getSize(st, pr, "init_test")
    [] pr.pc = "size_get" -> getSize(st, pr, "size_end")
    [] pr.pc = "count_get" -> getCount(st, pr, "count_end")
    [] pr.pc = "req_set" -> setRequest(st, pr)
    [] pr.pc = "done_set" -> setDone(st, pr)
    [] pr.pc \in {"rm_check", "rm_del"} -> removeRequest(st, pr)
    [] pr.pc = "chk_get" -> R(st, Settle(pr, "resolved", checkDone(st, pr.id)))

\* where each public method issues its first command
Entry(op) ==
  CASE op = "initialize" -> "init_size"
    [] op = "addRequest" -> "full_count"
    [] op = "isFullQueue" -> "full_count"
    [] op = "setRequest" -> "req_set"
    [] op = "setDone" -> "done_set"
    [] op = "removeRequest" -> "rm_check"
    [] op = "checkDone" -> "chk_get"
    [] op = "up1Count" -> "up_get"
    [] op = "down1Count" -> "dn_get"
    [] op = "getSize" -> "size_get"
    [] op = "getCount" -> "count_get"

\* the frame of a call to op; initialize sets AsyncApiQueue.size first
Enter(pr, op, id, resp, size) ==
  [Fresh EXCEPT !.op = op, !.pc = Entry(op), !.id = id, !.resp = resp,
                !.cfg = IF op = "initialize" THEN size ELSE pr.cfg]

RECURSIVE Run(_)
\* a call run to completion with no other instance in between
Run(r) == IF r.pr.pc = "idle" THEN r ELSE Run(Step(r.st, r.pr))

\* a Redis command fails: the callback gets err, setRedis/getRedis/delRedis
\* reject with it and every awaiting caller up to the public method rethrows
\* it.  The command changes nothing, but a command that was issued together
\* with it (Promise.all in initializeRedis and in isFullQueue) is still
\* executed, and so is what the other branch of isFullQueue goes on to do.
Fail(st, pr) ==
  LET both == setRedis(setRedis(st, QUEUE_COUNT, JNum(0)), QUEUE_SIZE, JNum(pr.cfg))
      \* getSize of isFullQueue read null and runs initializeRedis after
      \* getCount's initializeRedis
      other == pr.ret = "full_size_init" /\ pr.size.t = "num"
      after ==
        CASE pr.pc = "ir_count" ->
               IF other THEN both ELSE setRedis(st, QUEUE_SIZE, JNum(pr.cfg))
          [] pr.pc = "ir_size" -> IF other THEN both ELSE st
          [] pr.pc = "full_count" -> IF getRedis(st, QUEUE_SIZE) = JNull THEN both ELSE st
          [] pr.pc = "full_size" -> IF pr.count.t = "num" THEN both ELSE st
          [] OTHER -> st
  IN R(after, Settle(pr, "rejected", JErr))

RECURSIVE RunFailing(_, _)
\* a call run to completion with no other instance in between; its k-th
\* Redis command fails (if the call issues that many)
RunFailing(r, k) ==
  IF r.pr.pc = "idle" THEN r
  ELSE IF k = 1 THEN Fail(r.st, r.pr)
  ELSE RunFailing(Step(r.st, r.pr), k - 1)

\* the persisted in-flight count as a number, 0 when the key is absent
Count(st) == IF QUEUE_COUNT \in DOMAIN st THEN StrToNumber(st[QUEUE_COUNT]) ELSE JNum(0)

\* the persisted capacity as a number, 0 when the key is absent
Size(st) == IF QUEUE_SIZE \in DOMAIN st THEN StrToNumber(st[QUEUE_SIZE]) ELSE JNum(0)

\* ------------------------------------------------- concurrent instances
NoCall == [op |-> "none", id |-> "none", resp |-> <<>>, size |-> 0,
           status |-> "none", result |-> JUndef, before |-> << >>]
NoFlow == [phase |-> 0, id |-> "none", count |-> 0]
NoTally == [start |-> 0, calls |-> 0, ups |-> 0, downs |-> 0]

Init ==
  /\ store = << >>
  /\ proc = [p \in Procs |-> Fresh]
  /\ last = NoCall
  /\ streak = -1
  /\ flow = NoFlow
  /\ tally = NoTally

\* idle instance p calls op: the call's first Redis command is executed.
\* Every method but initialize needs the client initialize creates.
Call(p, op, id, resp, size) ==
  /\ proc[p].pc = "idle"
  /\ op = "initialize" \/ proc[p].cfg # 0
  /\ \E r \in {Step(store, Enter(proc[p], op, id, resp, size))} :
        /\ Count(r.st).n <= MaxCount
        /\ store' = r.st
        /\ proc' = [proc EXCEPT ![p] = r.pr]

Initialize(p, size) == Call(p, "initialize", "none", <<>>, size)
AddRequest(p) == Call(p, "addRequest", "none", <<>>, 0)
SetRequest(p, id) == Call(p, "setRequest", id, <<>>, 0)
SetDone(p, id, resp) == Call(p, "setDone", id, resp, 0)
RemoveRequest(p, id) == Call(p, "removeRequest", id, <<>>, 0)
CheckDone(p, id) == Call(p, "checkDone", id, <<>>, 0)
Up1Count(p) == Call(p, "up1Count", "none", <<>>, 0)
Down1Count(p) == Call(p, "down1Count", "none", <<>>, 0)

\* the next Redis command of the call instance p has in progress
Resume(p) ==
  /\ proc[p].pc # "idle"
  /\ \E r \in {Step(store, proc[p])} :
        /\ Count(r.st).n <= MaxCount
        /\ store' = r.st
        /\ proc' = [proc EXCEPT ![p] = r.pr]

\* an expiry that also gives the unit of an expiring slot back
ExpireReleasing(key) ==
  /\ key \in DOMAIN store
  /\ store' = IF key \in Ids
              THEN setRedis(delRedis(store, key), QUEUE_COUNT,
                            IF JsGT(Count(store), JNum(0)) THEN JsDec(Count(store))
                            ELSE JNum(0))
              ELSE delRedis(store, key)
  /\ UNCHANGED proc

\* a store in which only the slots carry a time to live
ExpireSlotsOnly(key) ==
  /\ key \in Ids
  /\ key \in DOMAIN store
  /\ store' = delRedis(store, key)
  /\ UNCHANGED proc

\* the store drops a key whose time to live has run out
Expire(key) ==
  /\ key \in DOMAIN store
  /\ store' = delRedis(store, key)
  /\ UNCHANGED proc

\* the concurrent instances use one id, two payloads and the sizes 1 and 2
RaceIds == {"a"}
RaceSizes == {1, 2}
RacePayloads == {DONE, EMPTY}

Next ==
  \/ \E p \in Procs, size \in RaceSizes : Initialize(p, size) /\ UNCHANGED hist
  \/ \E p \in Procs : AddRequest(p) /\ UNCHANGED hist
  \/ \E p \in Procs, id \in RaceIds : SetRequest(p, id) /\ UNCHANGED hist
  \/ \E p \in Procs, id \in RaceIds, resp \in RacePayloads :
       SetDone(p, id, resp) /\ UNCHANGED hist
  \/ \E p \in Procs, id \in RaceIds : RemoveRequest(p, id) /\ UNCHANGED hist
  \/ \E p \in Procs, id \in RaceIds : CheckDone(p, id) /\ UNCHANGED hist
  \/ \E p \in Procs : Resume(p) /\ UNCHANGED hist
  \/ \E key \in Keys : Expire(key) /\ UNCHANGED hist

Spec == Init /\ [][Next]_vars

\* ------------------------------------------------- one call at a time
\* the store holds both counters and the in-flight count is 0
Zeroed(st) ==
  /\ QUEUE_SIZE \in DOMAIN st
  /\ QUEUE_COUNT \in DOMAIN st
  /\ st[QUEUE_COUNT] = ToStr(0)

\* instance p calls op and the call runs to completion before anything else
\* happens; last records the call and the keyspace it started from
Alone(p, op, id, resp, size) ==
  /\ \A q \in Procs : proc[q].pc = "idle"
  /\ op = "initialize" \/ proc[p].cfg # 0
  /\ \E r \in {Run(Step(store, Enter(proc[p], op, id, resp, size)))} :
        /\ store' = r.st
        /\ proc' = [proc EXCEPT ![p] = [Fresh EXCEPT !.cfg = r.pr.cfg]]
        /\ last' = [op |-> op, id |-> id, resp |-> resp, size |-> r.pr.cfg,
                    status |-> r.pr.status, result |-> r.pr.result,
                    before |-> store]
        /\ flow' = CASE op = "addRequest" /\ r.pr.status = "resolved" ->
                           [phase |-> 1, id |-> "none", count |-> Count(r.st).n]
                      [] op = "setRequest" /\ flow.phase = 1 ->
                           [flow EXCEPT !.phase = 2, !.id = id]
                      [] op = "setDone" /\ flow.phase = 2 /\ flow.id = id ->
                           [flow EXCEPT !.phase = 3]
                      [] OTHER -> NoFlow
        /\ UNCHANGED tally

\* a run of addRequest calls can start where the call leaves a zeroed store
Restart == streak' = IF Zeroed(store') THEN 0 ELSE -1

InitializeAlone(p, size) ==
  /\ Alone(p, "initialize", "none", <<>>, size)
  /\ Restart

\* the run of addRequest calls goes on until the call after the size-th
AddRequestAlone(p) ==
  /\ Alone(p, "addRequest", "none", <<>>, 0)
  /\ streak' = IF streak >= 0 /\ streak <= Size(store).n THEN streak + 1 ELSE -1

SetRequestAlone(p, id) ==
  /\ Alone(p, "setRequest", id, <<>>, 0)
  /\ Restart

SetDoneAlone(p, id, resp) ==
  /\ Alone(p, "setDone", id, resp, 0)
  /\ Restart

RemoveRequestAlone(p, id) ==
  /\ Alone(p, "removeRequest", id, <<>>, 0)
  /\ Restart

CheckDoneAlone(p, id) ==
  /\ Alone(p, "checkDone", id, <<>>, 0)
  /\ Restart

\* a key's time to live runs out between two calls
ExpireAlone(key) ==
  /\ Expire(key)
  /\ last' = [NoCall EXCEPT !.op = "expire", !.id = key, !.before = store]
  /\ streak' = -1
  /\ flow' = NoFlow
  /\ UNCHANGED tally

NextSeq ==
  \/ \E p \in Procs, size \in Sizes : InitializeAlone(p, size)
  \/ \E p \in Procs : AddRequestAlone(p)
  \/ \E p \in Procs, id \in Ids : SetRequestAlone(p, id)
  \/ \E p \in Procs, id \in Ids, resp \in Payloads : SetDoneAlone(p, id, resp)
  \/ \E p \in Procs, id \in Ids : RemoveRequestAlone(p, id)
  \/ \E p \in Procs, id \in Ids : CheckDoneAlone(p, id)
  \/ \E key \in Keys : ExpireAlone(key)

SpecSeq == Init /\ [][NextSeq]_vars
\* ------------------------------------------- one call at a time, failures
\* instance p calls op, the call runs with no other call in between and its
\* k-th Redis command fails
Failing(p, op, id, resp, k) ==
  /\ \A q \in Procs : proc[q].pc = "idle"
  /\ proc[p].cfg # 0
  /\ \E r \in {RunFailing(R(store, Enter(proc[p], op, id, resp, 0)), k)} :
        /\ r.pr.result = JErr
        /\ store' = r.st
        /\ proc' = [proc EXCEPT ![p] = [Fresh EXCEPT !.cfg = r.pr.cfg]]
        /\ last' = [op |-> op, id |-> id, resp |-> resp, size |-> r.pr.cfg,
                    status |-> r.pr.status, result |-> r.pr.result,
                    before |-> store]
  /\ flow' = NoFlow
  /\ UNCHANGED tally

AddRequestFailing(p, k) ==
  /\ Failing(p, "addRequest", "none", <<>>, k)
  /\ streak' = -1

SetRequestFailing(p, id, k) ==
  /\ Failing(p, "setRequest", id, <<>>, k)
  /\ streak' = -1

SetDoneFailing(p, id, resp, k) ==
  /\ Failing(p, "setDone", id, resp, k)
  /\ streak' = -1

RemoveRequestFailing(p, id, k) ==
  /\ Failing(p, "removeRequest", id, <<>>, k)
  /\ streak' = -1

NextFail ==
  \/ \E p \in Procs, size \in RaceSizes : InitializeAlone(p, size)
  \/ \E p \in Procs : AddRequestAlone(p)
  \/ \E p \in Procs, id \in RaceIds : SetRequestAlone(p, id)
  \/ \E p \in Procs, id \in RaceIds, resp \in RacePayloads : SetDoneAlone(p, id, resp)
  \/ \E p \in Procs, id \in RaceIds : RemoveRequestAlone(p, id)
  \/ \E key \in Keys : ExpireAlone(key)
  \/ \E p \in Procs, k \in 1..MaxCommands : AddRequestFailing(p, k)
  \/ \E p \in Procs, id \in RaceIds, k \in 1..MaxCommands : SetRequestFailing(p, id, k)
  \/ \E p \in Procs, id \in RaceIds, resp \in RacePayloads, k \in 1..MaxCommands :
       SetDoneFailing(p, id, resp, k)
  \/ \E p \in Procs, id \in RaceIds, k \in 1..MaxCommands : RemoveRequestFailing(p, id, k)

SpecFail == Init /\ [][NextFail]_vars
\* ------------------------------ one call at a time, following the protocol
\* Each request goes addRequest, setRequest(id), then optionally
\* setDone(id, R), then optionally removeRequest(id), with an id of its own;
\* requests may overlap but every call runs alone, and no key expires.
\* Here flow is the ledger of the requests: the stage of every id, the units
\* reserved by addRequest that have no slot yet, and whether every payload so
\* far was a non-empty string other than "pending"; tally follows one slot
\* that was set done while the queue was full: phase 1 right after that
\* setDone, 2 right after the addRequest that came next, 3 later on, 4 right
\* after the removeRequest of that slot.
\* the payloads of the protocol runs: those above and "0", a non-empty string
\* whose number is 0
ProtocolPayloads == Payloads \cup {<<48>>}

NoLedger == [stage |-> [id \in Ids |-> "new"], reserved |-> 0, strict |-> TRUE]
NoFollowUp == [phase |-> 0, id |-> "none"]

InitProtocol ==
  \E size \in Sizes :
    /\ store = [k \in {QUEUE_SIZE, QUEUE_COUNT} |->
                  IF k = QUEUE_SIZE THEN ToStr(size) ELSE ToStr(0)]
    /\ proc = [p \in Procs |-> [Fresh EXCEPT !.cfg = size]]
    /\ last = NoCall
    /\ streak = -1
    /\ flow = NoLedger
    /\ tally = NoFollowUp

\* isFullQueue() called on keyspace st by an instance configured with size
\* cfg: addRequest would be rejected
wouldReject(st, cfg) ==
  Run(Step(st, Enter([Fresh EXCEPT !.cfg = cfg], "isFullQueue", "none", <<>>, 0))).pr.result
    = JTrue

\* instance p calls op and the call runs to completion before anything else
\* happens
Lone(p, op, id, resp) ==
  /\ \A q \in Procs : proc[q].pc = "idle"
  /\ \E r \in {Run(Step(store, Enter(proc[p], op, id, resp, 0)))} :
        /\ store' = r.st
        /\ proc' = [proc EXCEPT ![p] = [Fresh EXCEPT !.cfg = r.pr.cfg]]
        /\ last' = [op |-> op, id |-> id, resp |-> resp, size |-> r.pr.cfg,
                    status |-> r.pr.status, result |-> r.pr.result,
                    before |-> store]
  /\ UNCHANGED streak

\* the slot that is followed stays followed while other calls are made
Later(t) == IF t.phase \in {2, 3} THEN [t EXCEPT !.phase = 3] ELSE NoFollowUp

AddRequestNext(p) ==
  /\ Lone(p, "addRequest", "none", <<>>)
  /\ flow' = IF last'.status = "resolved" THEN [flow EXCEPT !.reserved = @ + 1] ELSE flow
  /\ tally' = IF tally.phase = 1 THEN [tally EXCEPT !.phase = 2] ELSE Later(tally)

SetRequestNext(p, id) ==
  /\ flow.reserved >= 1
  /\ flow.stage[id] = "new"
  /\ Lone(p, "setRequest", id, <<>>)
  /\ flow' = [flow EXCEPT !.reserved = @ - 1, !.stage[id] = "pending"]
  /\ tally' = Later(tally)

SetDoneNext(p, id, resp) ==
  /\ flow.stage[id] = "pending"
  /\ Lone(p, "setDone", id, resp)
  /\ flow' = [flow EXCEPT !.stage[id] = "done",
                          !.strict = @ /\ resp \notin {EMPTY, PENDING}]
  /\ tally' = IF wouldReject(store, proc[p].cfg) THEN [phase |-> 1, id |-> id]
              ELSE Later(tally)

RemoveRequestNext(p, id) ==
  /\ flow.stage[id] \in {"pending", "done"}
  /\ Lone(p, "removeRequest", id, <<>>)
  /\ flow' = [flow EXCEPT !.stage[id] = "removed"]
  /\ tally' = IF tally.phase \in {2, 3} /\ tally.id = id THEN [tally EXCEPT !.phase = 4]
              ELSE Later(tally)

NextProtocol ==
  \/ \E p \in Procs : AddRequestNext(p)
  \/ \E p \in Procs, id \in Ids : SetRequestNext(p, id)
  \/ \E p \in Procs, id \in Ids, resp \in ProtocolPayloads : SetDoneNext(p, id, resp)
  \/ \E p \in Procs, id \in Ids : RemoveRequestNext(p, id)

SpecProtocol == InitProtocol /\ [][NextProtocol]_vars
\* ------------------------------------- scenarios of concurrent callers
\* the state after every instance called initialize(size): both counters are
\* stored; count is the in-flight count the scenario starts from, and last.id
\* names the pending slot of the scenario, if it has one
Ready(size, count, slots) ==
  /\ last = IF slots = {} THEN NoCall
            ELSE [NoCall EXCEPT !.id = CHOOSE id \in slots : TRUE]
  /\ store = [k \in {QUEUE_SIZE, QUEUE_COUNT} \cup slots |->
                CASE k = QUEUE_SIZE -> ToStr(size)
                  [] k = QUEUE_COUNT -> ToStr(count)
                  [] OTHER -> PENDING]
  /\ proc = [p \in Procs |-> [Fresh EXCEPT !.cfg = size]]
  /\ streak = -1
  /\ flow = NoFlow
  /\ tally = [NoTally EXCEPT !.start = count]

\* instance p's call settles in this step and is resolved
Resolves(p) == proc[p].pc # "idle" /\ proc'[p].pc = "idle" /\ proc'[p].status = "resolved"

\* concurrent addRequest calls on an empty queue, no expiry: tally.ups counts
\* the reservations admitted
InitAdd == \E size \in RaceSizes : Ready(size, 0, {})

AddRequestCounted(p) ==
  /\ tally.calls < MaxCalls
  /\ AddRequest(p)
  /\ tally' = [tally EXCEPT !.calls = @ + 1]
  /\ UNCHANGED <<last, streak, flow>>

ResumeCounted(p) ==
  /\ Resume(p)
  /\ tally' = IF Resolves(p) /\ proc[p].op = "addRequest"
              THEN [tally EXCEPT !.ups = @ + 1] ELSE tally
  /\ UNCHANGED <<last, streak, flow>>

NextAdd ==
  \/ \E p \in Procs : AddRequestCounted(p)
  \/ \E p \in Procs : ResumeCounted(p)

SpecAdd == InitAdd /\ [][NextAdd]_vars

\* concurrent up1Count and down1Count calls, no expiry: tally.ups and
\* tally.downs count the calls of each kind
InitCounter == \E size \in RaceSizes, count \in 0..MaxStart : Ready(size, count, {})

Up1CountCounted(p) ==
  /\ tally.calls < MaxCalls
  /\ Up1Count(p)
  /\ tally' = [tally EXCEPT !.calls = @ + 1, !.ups = @ + 1]
  /\ UNCHANGED <<last, streak, flow>>

Down1CountCounted(p) ==
  /\ tally.calls < MaxCalls
  /\ Down1Count(p)
  /\ tally' = [tally EXCEPT !.calls = @ + 1, !.downs = @ + 1]
  /\ UNCHANGED <<last, streak, flow>>

ResumeCounter(p) == Resume(p) /\ UNCHANGED hist

NextCounter ==
  \/ \E p \in Procs : Up1CountCounted(p)
  \/ \E p \in Procs : Down1CountCounted(p)
  \/ \E p \in Procs : ResumeCounter(p)

SpecCounter == InitCounter /\ [][NextCounter]_vars

\* one setDone(id, R) and one removeRequest(id) on a pending slot, each from
\* an instance that makes no other call, no expiry
InitRace ==
  \E size \in RaceSizes, count \in 1..MaxStart, id \in Ids :
    count <= size /\ Ready(size, count, {id})

SetDoneOnce(p, id, resp) ==
  /\ \A q \in Procs : proc[q].op # "setDone"
  /\ proc[p].op = "none"
  /\ SetDone(p, id, resp)
  /\ UNCHANGED hist

RemoveRequestOnce(p, id) ==
  /\ \A q \in Procs : proc[q].op # "removeRequest"
  /\ proc[p].op = "none"
  /\ RemoveRequest(p, id)
  /\ UNCHANGED hist

NextRace ==
  \/ \E p \in Procs, resp \in Payloads : SetDoneOnce(p, last.id, resp)
  \/ \E p \in Procs : RemoveRequestOnce(p, last.id)
  \/ \E p \in Procs : ResumeCounter(p)

SpecRace == InitRace /\ [][NextRace]_vars
\* the queue is full of orphaned reservations (the count equals the size, no
\* caller will complete or remove them); callers keep calling addRequest and
\* every key the store holds runs out of its time to live unless it is SET
\* again.  tally.ups is 1 while the addRequest that settled last was admitted.
InitOrphan ==
  \E size \in RaceSizes, slots \in SUBSET RaceIds : Ready(size, size, slots)

AddRequestAgain(p) == AddRequest(p) /\ UNCHANGED hist

ResumeOrphan(p) ==
  /\ Resume(p)
  /\ tally' = IF proc[p].op = "addRequest" /\ proc'[p].pc = "idle"
              THEN [tally EXCEPT !.ups = IF Resolves(p) THEN 1 ELSE 0]
              ELSE tally
  /\ UNCHANGED <<last, streak, flow>>

ExpireOrphan(key) == Expire(key) /\ UNCHANGED hist

NextOrphan ==
  \/ \E p \in Procs : AddRequestAgain(p)
  \/ \E p \in Procs : ResumeOrphan(p)
  \/ \E key \in Keys : ExpireOrphan(key)

\* every call in progress gets its replies, every idle instance calls
\* addRequest again, and a key that stays in the store expires
SpecOrphan ==
  /\ InitOrphan
  /\ [][NextOrphan]_vars
  /\ \A p \in Procs : WF_vars(AddRequestAgain(p))
  /\ \A p \in Procs : WF_vars(ResumeOrphan(p))
  /\ \A key \in Keys : WF_vars(ExpireOrphan(key))
\* concurrent removeRequest(id) calls on one pending slot, no expiry:
\* tally.calls counts the calls made, tally.ups those that returned 1 and
\* tally.downs those that returned 0.
\* The tally t after this step, in which the call of p may have returned
Returned(p, t) ==
  IF proc'[p].pc # "idle" THEN t
  ELSE IF proc'[p].result = JNum(1) THEN [t EXCEPT !.ups = @ + 1]
  ELSE [t EXCEPT !.downs = @ + 1]

RemoveRequestCounted(p) ==
  /\ tally.calls < MaxCalls
  /\ RemoveRequest(p, last.id)
  /\ tally' = Returned(p, [tally EXCEPT !.calls = @ + 1])
  /\ UNCHANGED <<last, streak, flow>>

ResumeRemove(p) ==
  /\ Resume(p)
  /\ tally' = Returned(p, tally)
  /\ UNCHANGED <<last, streak, flow>>

NextRemove ==
  \/ \E p \in Procs : RemoveRequestCounted(p)
  \/ \E p \in Procs : ResumeRemove(p)

SpecRemove == InitRace /\ [][NextRemove]_vars
\* ------------------------------------------------- isFullQueue on its own
\* isFullQueue applied to every count from 0 and every size from 1 up to
\* MaxStored, each stored as the text SET wrote for it
InitFull == \E size \in 1..MaxStored, count \in 0..MaxStored : Ready(size, count, {})

IsFullQueueAlone(p) ==
  /\ Alone(p, "isFullQueue", "none", <<>>, 0)
  /\ streak' = -1

NextFull == \E p \in Procs : IsFullQueueAlone(p)

SpecFull == InitFull /\ [][NextFull]_vars
\* ----------------------------------------------- the reading calls, alone
\* the calls of the class that are meant to read only, run one at a time
\* among the calls that write, with keys expiring in between
GetSizeAlone(p) ==
  /\ Alone(p, "getSize", "none", <<>>, 0)
  /\ streak' = -1

GetCountAlone(p) ==
  /\ Alone(p, "getCount", "none", <<>>, 0)
  /\ streak' = -1

NextRead ==
  \/ \E p \in Procs, size \in RaceSizes : InitializeAlone(p, size)
  \/ \E p \in Procs : AddRequestAlone(p)
  \/ \E p \in Procs, id \in RaceIds : SetRequestAlone(p, id)
  \/ \E p \in Procs, id \in RaceIds, resp \in RacePayloads : SetDoneAlone(p, id, resp)
  \/ \E p \in Procs, id \in RaceIds : RemoveRequestAlone(p, id)
  \/ \E p \in Procs, id \in RaceIds : CheckDoneAlone(p, id)
  \/ \E p \in Procs : GetSizeAlone(p)
  \/ \E p \in Procs : GetCountAlone(p)
  \/ \E p \in Procs : IsFullQueueAlone(p)
  \/ \E key \in Keys : ExpireAlone(key)

SpecRead == Init /\ [][NextRead]_vars
\* ------------------------------------------------------------- properties
AllIdle == \A p \in Procs : proc[p].pc = "idle"

\* C1: under any interleaving of concurrent addRequest calls (no expiry), the
\* reservations admitted and not yet completed or removed never exceed the
\* configured queue size.
AdmittedWithinSize == tally.ups <= Size(store).n

\* C2: from an initialized store with count 0 and capacity c, of addRequest
\* calls run one after another the first c succeed, each raising the count by
\* exactly 1, and the (c+1)-th is rejected as full.
FirstSizeAddsSucceed ==
  (last.op = "addRequest" /\ streak >= 1) =>
    LET c == Size(last.before).n
    IN /\ streak <= c => (last.status = "resolved" /\ Count(store) = JNum(streak))
       /\ streak = c + 1 => (last.status = "rejected" /\ last.result = JStr(LIMIT))

\* C3: no counter update is lost: after n concurrent up1Count and m concurrent
\* down1Count calls from a count k >= m have all completed, the count is
\* k + n - m.
NoLostUpdate ==
  (AllIdle /\ tally.start >= tally.downs) =>
    Count(store) = JNum(tally.start + tally.ups - tally.downs)

\* C4: in every reachable state, under any interleaving of the calls,
\* initialize and expiry, the persisted count (0 when absent) is a number that
\* is not negative; down1Count on a count of 0 leaves it at 0.
CountNeverNegative == Count(store).t = "num" /\ Count(store).n >= 0

\* a down1Count that read a count of 0 is about to write the count back
FloorAtZero ==
  \E p \in Procs :
    /\ proc[p].pc = "dn_set"
    /\ proc[p].count = JStr(ToStr(0))
    /\ getRedis(store, QUEUE_COUNT) = JStr(ToStr(0))

\* C5: after addRequest(), setRequest(id) and setDone(id, R) run one after
\* another, for every payload R, checkDone(id) reports the payload R and the
\* count is exactly 1 less than right after the addRequest.
DoneReportsPayload ==
  flow.phase = 3 =>
    /\ checkDone(store, flow.id) = JStr(last.resp)
    /\ Count(store) = JNum(flow.count - 1)

\* C6: removeRequest(id) on a slot that is Done with any payload (the empty
\* string included) returns 1, makes the slot absent and leaves the count as
\* it was.
RemoveDoneKeepsCount ==
  (/\ last.op = "removeRequest"
   /\ last.id \in DOMAIN last.before
   /\ last.before[last.id] # PENDING) =>
    /\ last.result = JNum(1)
    /\ last.id \notin DOMAIN store
    /\ Count(store) = Count(last.before)

\* C7: removeRequest(id) on an absent slot resolves with 0 and leaves the
\* count and every slot unchanged.
RemoveAbsentIsNoOp ==
  (last.op = "removeRequest" /\ last.id \notin DOMAIN last.before) =>
    /\ last.status = "resolved"
    /\ last.result = JNum(0)
    /\ store = last.before

\* removeRequest ran on an absent slot while units were in flight and another
\* slot was stored
RemovedAbsent ==
  /\ last.op = "removeRequest"
  /\ last.id \notin DOMAIN last.before
  /\ Count(last.before).n >= 1
  /\ \E id \in Ids : id \in DOMAIN last.before

\* C8: right after setRequest(id) completes, checkDone(id) reports pending
\* (false), and setRequest leaves the count key as it was.
SetRequestReportsPending ==
  last.op = "setRequest" =>
    /\ last.status = "resolved"
    /\ checkDone(store, last.id) = JFalse
    /\ getRedis(store, QUEUE_COUNT) = getRedis(last.before, QUEUE_COUNT)

\* setRequest ran on a slot that held a response, with units in flight
RequestSet ==
  /\ last.op = "setRequest"
  /\ getRedis(last.before, last.id) = JStr(DONE)
  /\ Count(store).n >= 1

\* C9: with one setDone(id, R) and one removeRequest(id) running concurrently
\* on a pending slot, the count ends exactly 1 lower than before.
DecrementOnce ==
  (AllIdle /\ \A p \in Procs : proc[p].op # "none") =>
    Count(store) = JNum(tally.start - 1)

\* C10: when the key of a pending slot expires, checkDone(id) reports absent
\* (null) and the expiry leaves the count key as it was.
ExpiredPendingKeepsCount ==
  (/\ last.op = "expire"
   /\ last.id \in Ids
   /\ last.before[last.id] = PENDING) =>
    /\ checkDone(store, last.id) = JNull
    /\ getRedis(store, QUEUE_COUNT) = getRedis(last.before, QUEUE_COUNT)

\* a pending slot expired while its unit was counted
PendingExpired ==
  /\ last.op = "expire"
  /\ last.id \in Ids
  /\ last.before[last.id] = PENDING
  /\ Count(store).n >= 1
\* C11: when the queue is full only because of orphaned reservations, every
\* key eventually expires and callers keep calling addRequest, some later
\* addRequest is admitted.
OrphansStopLeaking == (tally.ups = 0) ~> (tally.ups = 1)

\* an addRequest was admitted after the count key of the full queue expired
AdmittedAfterExpiry ==
  /\ tally.ups = 1
  /\ tally.start = Size(store).n
  /\ Count(store).n <= tally.start
  /\ AllIdle
\* C12: whenever addRequest, setRequest, setDone or removeRequest fails
\* because one of its store round trips fails, the slot and the in-flight
\* count are as they were before the call, and the caller gets the error.
NoPartialSuccess ==
  (last.op \in {"addRequest", "setRequest", "setDone", "removeRequest"}
     /\ last.result = JErr) =>
    /\ last.status = "rejected"
    /\ Count(store) = Count(last.before)
    /\ last.id \in Ids => getRedis(store, last.id) = getRedis(last.before, last.id)
\* C13: when the queue is full and setDone(id, R) completes for a pending
\* slot, the next addRequest succeeds although removeRequest(id) was not
\* called, and a later removeRequest(id) returns 1 and leaves the count as it
\* was.
FreedAtCompletion ==
  /\ tally.phase = 2 => last.status = "resolved"
  /\ tally.phase = 4 => (last.result = JNum(1) /\ Count(store) = Count(last.before))
\* C14: after initialize with size c the persisted size is c; if both keys
\* were stored and the persisted size already was c, neither the size nor
\* the count changes; if the persisted size differed, the count is reset to 0.
InitializeReconciles ==
  last.op = "initialize" =>
    /\ getRedis(store, QUEUE_SIZE) = JStr(ToStr(last.size))
    /\ ({QUEUE_SIZE, QUEUE_COUNT} \subseteq DOMAIN last.before
          /\ Size(last.before) = JNum(last.size)) =>
         /\ getRedis(store, QUEUE_SIZE) = getRedis(last.before, QUEUE_SIZE)
         /\ getRedis(store, QUEUE_COUNT) = getRedis(last.before, QUEUE_COUNT)
    /\ (QUEUE_SIZE \in DOMAIN last.before
          /\ Size(last.before) # JNum(last.size)) =>
         getRedis(store, QUEUE_COUNT) = JStr(ToStr(0))

\* initialize ran with the size already stored while units were in flight
InitializedAgain ==
  /\ last.op = "initialize"
  /\ {QUEUE_SIZE, QUEUE_COUNT} \subseteq DOMAIN last.before
  /\ Size(last.before) = JNum(last.size)
  /\ Count(last.before).n >= 1
\* the reservations admitted and neither set done nor removed: the units
\* that have no slot yet and the pending slots
Outstanding ==
  flow.reserved + Cardinality({id \in Ids : flow.stage[id] = "pending"})

\* C15: in every state reached by calls made one at a time along the
\* protocol, with payloads that are non-empty and not "pending", the count
\* equals the number of admitted reservations neither set done nor removed:
\* one unit for every pending slot, none for a done slot.
CountIsOutstanding == flow.strict => Count(store) = JNum(Outstanding)

\* one slot is pending, one is done and kept, and a unit has no slot yet
PendingDoneAndReserved ==
  /\ flow.strict
  /\ flow.reserved >= 1
  /\ \E id \in Ids : flow.stage[id] = "pending" /\ getRedis(store, id) = JStr(PENDING)
  /\ \E id \in Ids : flow.stage[id] = "done" /\ getRedis(store, id) = JStr(DONE)
\* C16: isFullQueue() returns true exactly when the persisted count is greater
\* than or equal to the persisted size as integers, for every pair of values
\* as stored and read back, multi-digit values included.
FullIffCountAtLeastSize ==
  last.op = "isFullQueue" =>
    /\ last.result \in {JTrue, JFalse}
    /\ last.result = JTrue <=> Count(last.before).n >= Size(last.before).n
\* C17: removeRequest(id) on a pending slot, with no other call running,
\* deletes the key, returns 1 and lowers the count by exactly 1 (a count of 0
\* stays 0); a removeRequest whose delete removed no key leaves the count.
RemovePendingReleases ==
  last.op = "removeRequest" =>
    /\ getRedis(last.before, last.id) = JStr(PENDING) =>
         /\ last.status = "resolved"
         /\ last.result = JNum(1)
         /\ last.id \notin DOMAIN store
         /\ Count(store) = JNum(IF Count(last.before).n > 0
                                THEN Count(last.before).n - 1 ELSE 0)
    /\ last.result # JNum(1) => Count(store) = Count(last.before)

\* removeRequest ran on a pending slot while two units were in flight
RemovedPending ==
  /\ last.op = "removeRequest"
  /\ getRedis(last.before, last.id) = JStr(PENDING)
  /\ Count(last.before) = JNum(2)
\* C18: while a reservation is outstanding (the persisted count is at least
\* 1), no reading call (getSize, getCount, isFullQueue, checkDone, or the
\* admission check of addRequest) lowers the count, also after the
\* QUEUE_SIZE key has expired.
ReadsKeepCount ==
  Count(last.before).n >= 1 =>
    /\ last.op \in {"getSize", "getCount", "isFullQueue", "checkDone"} =>
         Count(store) = Count(last.before)
    /\ last.op = "addRequest" =>
         Count(store).n = Count(last.before).n
                            + (IF last.status = "resolved" THEN 1 ELSE 0)
\* C19: under every interleaving of two or more concurrent removeRequest(id)
\* calls on a pending slot, exactly one call returns 1, all others return 0,
\* and the count is lowered exactly once in total.
OneRemoveReturnsOne ==
  /\ tally.ups <= 1
  /\ (AllIdle /\ tally.calls >= 2) =>
       /\ tally.ups = 1
       /\ tally.downs = tally.calls - 1
       /\ Count(store) = JNum(tally.start - 1)

\* a removeRequest that saw the slot pending is about to send its DEL after
\* another call deleted the slot
RemoveLostRace ==
  \E p \in Procs :
    /\ proc[p].pc = "rm_del"
    /\ proc[p].isDone = JFalse
    /\ last.id \notin DOMAIN store
\* C20: setDone(id, R) on a slot that is already done, or on an id that has
\* no slot, does not lower the count: only the completion of a pending slot
\* releases a unit.
SetDoneCountsOnce ==
  (last.op = "setDone" /\ getRedis(last.before, last.id) # JStr(PENDING)) =>
    Count(store) = Count(last.before)
====
